---- MODULE Spec2Model ----
(***************************************************************************)
(* Team formation and invitation workflow of the hackathon platform        *)
(* backend (src/backend/repositories/team.py, repositories/hackathon.py),  *)
(* over the tables declared in src/backend/models.                         *)
(*                                                                         *)
(* Every repository method opens its own session (database.py:15) and      *)
(* commits at most once, so under Spec one action is one whole call.       *)
(* Foreign keys are enforced by the store with the ondelete rules the      *)
(* models declare (CASCADE, SET NULL).  Tables whose primary key nobody    *)
(* reads back (registrations, team members) are bags of rows: the models   *)
(* declare no unique constraint on them, so equal rows may coexist.        *)
(***************************************************************************)
EXTENDS Integers, FiniteSets, Sequences, Bags, TLC

\* ---------------------------------------------------------------- bounds
NumUsers == 3
MaxHackathons == 3
MaxTeams == 2
MaxInvitations == 1
MaxReinvitations == 2
MaxSizeInput == 2
NumProcs == 2
MaxTime == 3

\* ------------------------------------------------------------- constants
MinSizeField == 1

Users == 1..NumUsers
HackathonIds == 1..MaxHackathons
TeamIds == 1..MaxTeams
InvitationIds == 1..MaxInvitations
Procs == 1..NumProcs
TeamNames == {"x", "y"}
SizeInputs == MinSizeField..MaxSizeInput
None == 0

HackathonStatus == {"registration", "in_progress", "finished"}
TeamMemberRole == {"captain", "member"}
InvitationStatus == {"pending", "accepted", "rejected"}

VARIABLES hackathons, registrations, teams, team_members, invitations,
          nextHackathonId, nextTeamId, nextInvitationId, last, calls, watch,
          blacklisted_tokens, now

db == <<hackathons, registrations, teams, team_members, invitations,
        nextHackathonId, nextTeamId, nextInvitationId>>
\* The table of logged-out access tokens and the clock its rows are
\* compared with
auth == <<blacklisted_tokens, now>>
vars == <<hackathons, registrations, teams, team_members, invitations,
          nextHackathonId, nextTeamId, nextInvitationId, last, calls, watch,
          blacklisted_tokens, now>>

\* ------------------------------------------------------------ bag helpers
RECURSIVE SumCopies(_, _)
SumCopies(B, S) ==
    IF S = {} THEN 0
    ELSE LET r == CHOOSE x \in S : TRUE IN B[r] + SumCopies(B, S \ {r})

\* SELECT ... WHERE P: the rows of table B that satisfy P
Rows(B, P(_)) == {r \in DOMAIN B : P(r)}
\* SELECT count(*) ... WHERE P
CountRows(B, P(_)) == SumCopies(B, Rows(B, P))
\* INSERT one row
InsertRow(B, r) == B (+) SetToBag({r})
\* session.delete(row): DELETE by primary key, one row
DeleteRow(B, r) == B (-) SetToBag({r})
\* DELETE ... WHERE P (also the store's ON DELETE CASCADE)
DeleteWhere(B, P(_)) == [r \in {x \in DOMAIN B : ~P(x)} |-> B[r]]
\* UPDATE ... SET F WHERE P
UpdateWhere(B, P(_), F(_)) ==
    LET G(r) == IF P(r) THEN F(r) ELSE r
        img == {G(r) : r \in DOMAIN B}
    IN  [y \in img |-> SumCopies(B, {r \in DOMAIN B : G(r) = y})]

\* ------------------------------------------------------------ call record
\* What the last finished call was and how it ended: the exception class
\* ("none" when it returned), the message (or the value returned) and, for a
\* re-raised error, the message it wraps
Call(op, exc, msg) == [op |-> op, exc |-> exc, msg |-> msg, cause |-> "-"]

Ok(op) == Call(op, "none", "ok")
ValueError(op, msg) == Call(op, "ValueError", msg)
Quiet == Call("-", "none", "-")

\* `last` keeps the outcome of the calls that `watch` selects, by the name
\* of the operation or by the message they end with: the calls a property
\* is about; any other call leaves Quiet
Record(c) ==
    IF c.op \in watch \/ c.msg \in watch \/ c.cause \in watch THEN c ELSE Quiet

\* An empty store: the tables right after create_tables()
InitEmpty ==
    /\ hackathons = << >>
    /\ registrations = EmptyBag
    /\ teams = << >>
    /\ team_members = EmptyBag
    /\ invitations = << >>
    /\ nextHackathonId = 1
    /\ nextTeamId = 1
    /\ nextInvitationId = 1
    /\ last = Quiet
    /\ calls = << >>
    /\ watch = {}
    /\ blacklisted_tokens = {}
    /\ now = 0

\* The store once an administrator has created two hackathons
\* (HackathonCreate: max_team_size >= 1): hackathon 1 is open for
\* registration, hackathon 2 is already in progress; higher ids name no
\* hackathon
InitOpen(watched) ==
    /\ \E m \in SizeInputs :
          hackathons = <<[status |-> "registration", max_team_size |-> m],
                         [status |-> "in_progress", max_team_size |-> m]>>
    /\ registrations = EmptyBag
    /\ teams = << >>
    /\ team_members = EmptyBag
    /\ invitations = << >>
    /\ nextHackathonId = 3
    /\ nextTeamId = 1
    /\ nextInvitationId = 1
    /\ last = Quiet
    /\ calls = << >>
    /\ watch = watched
    /\ blacklisted_tokens = {}
    /\ now = 0

Init == InitOpen({})

\* ------------------------------------------------- store-level cascades
\* A function without the keys in D
Without(f, D) == [k \in DOMAIN f \ D |-> f[k]]

\* teams.id is referenced by team_members.team_id and
\* team_invitations.team_id (ondelete CASCADE) and by
\* hackathon_registrations.team_id (ondelete SET NULL)
MembersAfterTeamDelete(ts) ==
    LET gone(r) == r.team_id \in ts IN DeleteWhere(team_members, gone)
InvitationsAfterTeamDelete(ts) ==
    Without(invitations, {i \in DOMAIN invitations : invitations[i].team_id \in ts})
\* A teams.id reference that deletes the registration with its team
RegistrationsDroppedWithTeam(regs, ts) ==
    LET hit(r) == r.team_id \in ts IN DeleteWhere(regs, hit)
RegistrationsAfterTeamDelete(regs, ts) ==
    LET hit(r) == r.team_id \in ts
        clear(r) == [r EXCEPT !.team_id = None]
    IN  UpdateWhere(regs, hit, clear)

\* ------------------------------------------------- HackathonRepository
create_hackathon(status, max_size) ==
    /\ nextHackathonId <= MaxHackathons
    /\ hackathons' = [h \in DOMAIN hackathons \cup {nextHackathonId} |->
                        IF h = nextHackathonId
                        THEN [status |-> status, max_team_size |-> max_size]
                        ELSE hackathons[h]]
    /\ nextHackathonId' = nextHackathonId + 1
    /\ last' = Record(Ok("create_hackathon"))
    /\ UNCHANGED <<registrations, teams, team_members, invitations,
                   nextTeamId, nextInvitationId, calls, watch, auth>>

\* The bodies a PATCH of a hackathon may carry: the fields that were sent
\* and their values
HackathonUpdateBodies ==
    [fields_set : SUBSET {"status", "max_team_size"},
     status : HackathonStatus,
     max_team_size : 0..MaxSizeInput]

\* A HackathonUpdate whose max_team_size may be any integer
HackathonUpdateUnbounded(body) == TRUE

\* HackathonUpdate accepts the body: max_team_size, when sent, is an
\* integer with ge=1
HackathonUpdate(body) ==
    "max_team_size" \in body.fields_set => body.max_team_size >= MinSizeField

\* update_dict = model_dump(exclude_unset=True): a field left out keeps its
\* value; a body that HackathonUpdate refuses never reaches the repository
update_hackathon(h, body) ==
    /\ IF ~HackathonUpdate(body)
       THEN /\ last' = Record(Call("update_hackathon", "ValidationError", "invalid"))
            /\ UNCHANGED hackathons
       ELSE IF h \notin DOMAIN hackathons
       THEN /\ last' = Record(Call("update_hackathon", "none", "none"))
            /\ UNCHANGED hackathons
       ELSE /\ hackathons' = [hackathons EXCEPT
                 ![h].status = IF "status" \in body.fields_set
                               THEN body.status ELSE @,
                 ![h].max_team_size = IF "max_team_size" \in body.fields_set
                                      THEN body.max_team_size ELSE @]
            /\ last' = Record([Ok("update_hackathon") EXCEPT !.cause =
                                 IF hackathons'[h].max_team_size
                                       # hackathons[h].max_team_size
                                 THEN "max_team_size" ELSE "-"])
    /\ UNCHANGED <<registrations, teams, team_members, invitations,
                   nextHackathonId, nextTeamId, nextInvitationId, calls, watch, auth>>

delete_hackathon(h) ==
    /\ IF h \notin DOMAIN hackathons
       THEN /\ last' = Record(Call("delete_hackathon", "none", "false"))
            /\ UNCHANGED <<hackathons, registrations, teams, team_members, invitations>>
       ELSE LET ts == {t \in DOMAIN teams : teams[t].hackathon_id = h}
                ofh(r) == r.hackathon_id = h
            IN  /\ hackathons' = Without(hackathons, {h})
                /\ teams' = Without(teams, ts)
                /\ team_members' = MembersAfterTeamDelete(ts)
                /\ invitations' = InvitationsAfterTeamDelete(ts)
                /\ registrations' =
                     RegistrationsAfterTeamDelete(DeleteWhere(registrations, ofh), ts)
                /\ last' = Record(Ok("delete_hackathon"))
    /\ UNCHANGED <<nextHackathonId, nextTeamId, nextInvitationId, calls, watch, auth>>

\* The row a registration query finds (.first()), if any
RegistrationsOf(h, u) ==
    LET m(r) == r.hackathon_id = h /\ r.user_id = u IN Rows(registrations, m)

\* register_for_hackathon without its lookup of an existing registration
RegisterUnchecked(h, u) ==
    IF h \notin DOMAIN hackathons THEN "hackathon_not_found"
    ELSE IF hackathons[h].status # "registration" THEN "registration_closed"
    ELSE "ok"

\* register_for_hackathon without its status check
RegisterWhenever(h, u) ==
    IF h \notin DOMAIN hackathons THEN "hackathon_not_found"
    ELSE IF RegistrationsOf(h, u) # {} THEN "already_registered"
    ELSE "ok"

\* The outcome of the checks of register_for_hackathon, in the code's order
RegisterOutcome(h, u) ==
    IF h \notin DOMAIN hackathons THEN "hackathon_not_found"
    ELSE IF hackathons[h].status # "registration" THEN "registration_closed"
    ELSE IF RegistrationsOf(h, u) # {} THEN "already_registered"
    ELSE "ok"

register_for_hackathon(h, u) ==
    LET res == RegisterOutcome(h, u) IN
    /\ IF res = "ok"
       THEN /\ registrations' = InsertRow(registrations,
                    [hackathon_id |-> h, user_id |-> u, team_id |-> None])
            /\ last' = Record(Ok("register_for_hackathon"))
       ELSE /\ UNCHANGED registrations
            /\ last' = Record(ValueError("register_for_hackathon", res))
    /\ UNCHANGED <<hackathons, teams, team_members, invitations,
                   nextHackathonId, nextTeamId, nextInvitationId, calls, watch, auth>>

unregister_from_hackathon(h, u) ==
    /\ IF RegistrationsOf(h, u) = {}
       THEN /\ UNCHANGED registrations
            /\ last' = Record(Call("unregister_from_hackathon", "none", "false"))
       ELSE /\ \E r \in RegistrationsOf(h, u) :
                   registrations' = DeleteRow(registrations, r)
            /\ last' = Record(Ok("unregister_from_hackathon"))
    /\ UNCHANGED <<hackathons, teams, team_members, invitations,
                   nextHackathonId, nextTeamId, nextInvitationId, calls, watch, auth>>

\* ------------------------------------------------------ TeamRepository
\* A team object that also carries the limit of its hackathon
get_team_with_limit(t) ==
    IF t \in DOMAIN teams
    THEN [id |-> t, name |-> teams[t].name,
          hackathon_id |-> teams[t].hackathon_id,
          captain_id |-> teams[t].captain_id,
          max_team_size |-> hackathons[teams[t].hackathon_id].max_team_size]
    ELSE [id |-> None]

\* The TeamOrm object a query returns: the mapped columns of the teams
\* table, and nothing else
get_team_by_id(t) ==
    IF t \in DOMAIN teams
    THEN [id |-> t, name |-> teams[t].name,
          hackathon_id |-> teams[t].hackathon_id,
          captain_id |-> teams[t].captain_id]
    ELSE [id |-> None]

MembersOf(t, u) ==
    LET m(r) == r.team_id = t /\ r.user_id = u IN Rows(team_members, m)

MemberCount(t) ==
    LET m(r) == r.team_id = t IN CountRows(team_members, m)

TeamsNamed(h, name) ==
    {t \in DOMAIN teams : teams[t].hackathon_id = h /\ teams[t].name = name}

\* create_team without its lookup of the creator's registration
CreateTeamUnregistered(h, name, captain) ==
    IF h \notin DOMAIN hackathons THEN "hackathon_not_found"
    ELSE IF hackathons[h].status # "registration" THEN "hackathon_not_registration"
    ELSE IF TeamsNamed(h, name) # {} THEN "name_taken"
    ELSE "ok"

\* create_team without its lookup of a team of the same name
CreateTeamAnyName(h, name, captain) ==
    IF h \notin DOMAIN hackathons THEN "hackathon_not_found"
    ELSE IF hackathons[h].status # "registration" THEN "hackathon_not_registration"
    ELSE IF RegistrationsOf(h, captain) = {} THEN "not_registered"
    ELSE "ok"

\* create_team looking for the name before the creator's registration
CreateTeamNameFirst(h, name, captain) ==
    IF h \notin DOMAIN hackathons THEN "hackathon_not_found"
    ELSE IF hackathons[h].status # "registration" THEN "hackathon_not_registration"
    ELSE IF TeamsNamed(h, name) # {} THEN "name_taken"
    ELSE IF RegistrationsOf(h, captain) = {} THEN "not_registered"
    ELSE "ok"

\* The outcome of the checks of create_team, in the code's order
CreateTeamOutcome(h, name, captain) ==
    IF h \notin DOMAIN hackathons THEN "hackathon_not_found"
    ELSE IF hackathons[h].status # "registration" THEN "hackathon_not_registration"
    ELSE IF RegistrationsOf(h, captain) = {} THEN "not_registered"
    ELSE IF TeamsNamed(h, name) # {} THEN "name_taken"
    ELSE "ok"

\* A creator row inserted with the column default of TeamMemberOrm.role
CreatorAsMember == "member"

\* The role of the TeamMember row create_team inserts for the creator
CreatorRole == "captain"

\* A create_team that leaves the creator's registration as it was
RegistrationsUnlinked(h, captain, t) == registrations

\* The registration update of create_team: the creator's registration for
\* the hackathon references the new team
RegistrationsAfterCreate(h, captain, t) ==
    LET mine(r) == r.hackathon_id = h /\ r.user_id = captain
        link(r) == [r EXCEPT !.team_id = t]
    IN  UpdateWhere(registrations, mine, link)

create_team(h, name, captain) ==
    LET res == CreateTeamOutcome(h, name, captain)
        t == nextTeamId
    IN
    /\ res = "ok" => nextTeamId <= MaxTeams
    /\ IF res = "ok"
       THEN /\ teams' = [k \in DOMAIN teams \cup {t} |->
                           IF k = t
                           THEN [name |-> name, hackathon_id |-> h,
                                 captain_id |-> captain]
                           ELSE teams[k]]
            /\ nextTeamId' = t + 1
            /\ team_members' = InsertRow(team_members,
                   [team_id |-> t, user_id |-> captain, role |-> CreatorRole])
            /\ registrations' = RegistrationsAfterCreate(h, captain, t)
            /\ last' = Record(Ok("create_team"))
       ELSE /\ UNCHANGED <<teams, nextTeamId, team_members, registrations>>
            /\ last' = Record(ValueError("create_team", res))
    /\ UNCHANGED <<hackathons, invitations, nextHackathonId, nextInvitationId, calls, watch, auth>>

\* A captain check that lets every requester through
AnyoneIsCaptain(t, user) == TRUE

\* `team.captain_id != user_id`, the check of update_team and delete_team
IsCaptain(t, user) == teams[t].captain_id = user

\* TeamUpdate carries name and description only; description is not
\* modelled, so a patch is a new name or nothing ("unset")
update_team(t, name, user) ==
    /\ IF t \notin DOMAIN teams
       THEN /\ UNCHANGED teams
            /\ last' = Record(Call("update_team", "none", "none"))
       ELSE IF ~IsCaptain(t, user)
       THEN /\ UNCHANGED teams
            /\ last' = Record(ValueError("update_team", "not_captain"))
       ELSE /\ teams' = [teams EXCEPT ![t].name = IF name = "unset" THEN @ ELSE name]
            /\ last' = Record(Ok("update_team"))
    /\ UNCHANGED <<hackathons, registrations, team_members, invitations,
                   nextHackathonId, nextTeamId, nextInvitationId, calls, watch, auth>>

delete_team(t, user) ==
    /\ IF t \notin DOMAIN teams
       THEN /\ UNCHANGED <<teams, team_members, invitations, registrations>>
            /\ last' = Record(Call("delete_team", "none", "false"))
       ELSE IF ~IsCaptain(t, user)
       THEN /\ UNCHANGED <<teams, team_members, invitations, registrations>>
            /\ last' = Record(ValueError("delete_team", "not_captain"))
       ELSE /\ teams' = Without(teams, {t})
            /\ team_members' = MembersAfterTeamDelete({t})
            /\ invitations' = InvitationsAfterTeamDelete({t})
            /\ registrations' = RegistrationsAfterTeamDelete(registrations, {t})
            /\ last' = Record(Ok("delete_team"))
    /\ UNCHANGED <<hackathons, nextHackathonId, nextTeamId, nextInvitationId, calls, watch, auth>>

\* A capacity check that lets every count through (what the team limit
\* properties are compared against)
CapacityUnchecked(team, members_count) == "ok"

\* `if members_count >= team.max_team_size`: team is the TeamOrm object,
\* which has an attribute per mapped column
CapacityOutcome(team, members_count) ==
    IF "max_team_size" \notin DOMAIN team THEN "AttributeError"
    ELSE IF members_count >= team.max_team_size THEN "team_full"
    ELSE "ok"

\* The outcome of the checks of add_team_member, in the code's order
AddMemberOutcome(t, u) ==
    IF get_team_by_id(t).id = None THEN "team_not_found"
    ELSE IF RegistrationsOf(get_team_by_id(t).hackathon_id, u) = {} THEN "not_registered"
    ELSE IF MembersOf(t, u) # {} THEN "already_member"
    ELSE CapacityOutcome(get_team_by_id(t), MemberCount(t))

\* The class of the exception an outcome is raised as
ExceptionOf(res) ==
    IF res = "ok" THEN "none"
    ELSE IF res = "AttributeError" THEN "AttributeError"
    ELSE "ValueError"

\* What add_team_member commits when every check passes
MembersAfterAdd(t, u, role) ==
    InsertRow(team_members, [team_id |-> t, user_id |-> u, role |-> role])
RegistrationsAfterAdd(t, u) ==
    LET mine(r) == r.hackathon_id = teams[t].hackathon_id /\ r.user_id = u
        link(r) == [r EXCEPT !.team_id = t]
    IN  UpdateWhere(registrations, mine, link)

add_team_member(t, u) ==
    LET res == AddMemberOutcome(t, u) IN
    /\ last' = Record(Call("add_team_member", ExceptionOf(res), res))
    /\ IF res = "ok"
       THEN /\ team_members' = MembersAfterAdd(t, u, "member")
            /\ registrations' = RegistrationsAfterAdd(t, u)
       ELSE UNCHANGED <<team_members, registrations>>
    /\ UNCHANGED <<hackathons, teams, invitations,
                   nextHackathonId, nextTeamId, nextInvitationId, calls, watch, auth>>

\* --------------------------------------------------------- router/team.py
\* The add-member handler without its captain check
EndpointForAnyCaller(t, u, caller) ==
    IF get_team_by_id(t).id = None THEN "404"
    ELSE IF ExceptionOf(AddMemberOutcome(t, u)) = "none" THEN "201"
    ELSE IF ExceptionOf(AddMemberOutcome(t, u)) = "ValueError" THEN "400"
    ELSE AddMemberOutcome(t, u)

\* How POST /teams/{team_id}/members/{user_id} answers: the status of the
\* HTTPException the handler raises (404, 403, or 400 for a ValueError of
\* the repository), 201 when it returns, or the exception it lets through
EndpointOutcome(t, u, caller) ==
    IF get_team_by_id(t).id = None THEN "404"
    ELSE IF get_team_by_id(t).captain_id # caller THEN "403"
    ELSE IF ExceptionOf(AddMemberOutcome(t, u)) = "none" THEN "201"
    ELSE IF ExceptionOf(AddMemberOutcome(t, u)) = "ValueError" THEN "400"
    ELSE AddMemberOutcome(t, u)

\* The handler add_team_member of router/team.py: the repository method
\* is called only past the two checks of the handler
router_add_team_member(t, u, caller) ==
    LET res == EndpointOutcome(t, u, caller) IN
    /\ last' = Record(Call("router_add_team_member",
                           IF res = "201" THEN "none"
                           ELSE IF res \in {"404", "403", "400"} THEN "HTTPException"
                           ELSE res,
                           res))
    /\ IF res = "201"
       THEN /\ team_members' = MembersAfterAdd(t, u, "member")
            /\ registrations' = RegistrationsAfterAdd(t, u)
       ELSE UNCHANGED <<team_members, registrations>>
    /\ UNCHANGED <<hackathons, teams, invitations,
                   nextHackathonId, nextTeamId, nextInvitationId, calls, watch, auth>>

\* remove_team_member without its captain rule
RemoveWithoutCaptainRule(t, member, remover) ==
    IF get_team_by_id(t).id = None THEN "team_not_found"
    ELSE IF member # remover /\ get_team_by_id(t).captain_id # remover
         THEN "insufficient_rights"
    ELSE IF MembersOf(t, member) = {} THEN "false"
    ELSE "ok"

\* remove_team_member without its rights check
RemoveWithoutRights(t, member, remover) ==
    IF get_team_by_id(t).id = None THEN "team_not_found"
    ELSE IF member = get_team_by_id(t).captain_id THEN "captain_cannot_leave"
    ELSE IF MembersOf(t, member) = {} THEN "false"
    ELSE "ok"

\* The outcome of the checks of remove_team_member, in the code's order
RemoveOutcome(t, member, remover) ==
    IF get_team_by_id(t).id = None THEN "team_not_found"
    ELSE IF member # remover /\ get_team_by_id(t).captain_id # remover
         THEN "insufficient_rights"
    ELSE IF member = get_team_by_id(t).captain_id THEN "captain_cannot_leave"
    ELSE IF MembersOf(t, member) = {} THEN "false"
    ELSE "ok"

remove_team_member(t, member, remover) ==
    LET res == RemoveOutcome(t, member, remover)
        mine(r) == r.hackathon_id = teams[t].hackathon_id /\ r.user_id = member
        clear(r) == [r EXCEPT !.team_id = None]
    IN
    /\ IF res = "ok"
       THEN /\ \E row \in MembersOf(t, member) :
                   team_members' = DeleteRow(team_members, row)
            /\ registrations' = UpdateWhere(registrations, mine, clear)
       ELSE UNCHANGED <<team_members, registrations>>
    /\ last' = Record(Call("remove_team_member",
                     IF res \in {"ok", "false"} THEN "none" ELSE "ValueError", res))
    /\ UNCHANGED <<hackathons, teams, invitations,
                   nextHackathonId, nextTeamId, nextInvitationId, calls, watch, auth>>

\* An existing-invitation query that finds nothing
NoPendingSeen(t, invitee) == {}

PendingFor(t, invitee) ==
    {i \in DOMAIN invitations :
        /\ invitations[i].team_id = t
        /\ invitations[i].invitee_id = invitee
        /\ invitations[i].status = "pending"}

\* create_invitation with no check on who invites whom
InviteAnyone(t, inviter, invitee) ==
    IF get_team_by_id(t).id = None THEN "team_not_found"
    ELSE IF PendingFor(t, invitee) # {} THEN "already_invited"
    ELSE "ok"

\* The outcome of the checks of create_invitation, in the code's order
InviteOutcome(t, inviter, invitee) ==
    IF get_team_by_id(t).id = None THEN "team_not_found"
    ELSE IF get_team_by_id(t).captain_id # inviter THEN "not_captain"
    ELSE IF inviter = invitee THEN "self_invite"
    ELSE IF RegistrationsOf(get_team_by_id(t).hackathon_id, invitee) = {}
         THEN "not_registered"
    ELSE IF MembersOf(t, invitee) # {} THEN "already_member"
    ELSE IF PendingFor(t, invitee) # {} THEN "already_invited"
    ELSE "ok"

create_invitation(t, inviter, invitee) ==
    LET res == InviteOutcome(t, inviter, invitee)
        i == nextInvitationId
    IN
    /\ res = "ok" => nextInvitationId <= MaxReinvitations
    /\ IF res = "ok"
       THEN /\ invitations' = [k \in DOMAIN invitations \cup {i} |->
                                 IF k = i
                                 THEN [team_id |-> t, inviter_id |-> inviter,
                                       invitee_id |-> invitee, status |-> "pending"]
                                 ELSE invitations[k]]
            /\ nextInvitationId' = i + 1
            /\ last' = Record(Ok("create_invitation"))
       ELSE /\ UNCHANGED <<invitations, nextInvitationId>>
            /\ last' = Record(ValueError("create_invitation", res))
    /\ UNCHANGED <<hackathons, registrations, teams, team_members,
                   nextHackathonId, nextTeamId, calls, watch, auth>>

\* update_invitation_status without its pending check
ResolveAnyStatus(i, user) ==
    IF i \notin DOMAIN invitations THEN "none"
    ELSE IF invitations[i].invitee_id # user THEN "not_invitee"
    ELSE "ok"

\* update_invitation_status without its invitee check
ResolveByAnyone(i, user) ==
    IF i \notin DOMAIN invitations THEN "none"
    ELSE IF invitations[i].status # "pending" THEN "already_resolved"
    ELSE "ok"

\* The outcome of the checks update_invitation_status makes before it
\* writes the new status
ResolveOutcome(i, user) ==
    IF i \notin DOMAIN invitations THEN "none"
    ELSE IF invitations[i].invitee_id # user THEN "not_invitee"
    ELSE IF invitations[i].status # "pending" THEN "already_resolved"
    ELSE "ok"

\* An except branch that commits the status the caller asked for
StatusLeftAccepted == "accepted"

\* The status the except branch leaves on the invitation before it commits
StatusAfterFailedAccept == "pending"

update_invitation_status(i, status, user) ==
    LET res == ResolveOutcome(i, user)
        t == invitations[i].team_id
        add == AddMemberOutcome(t, user)
        base == Call("update_invitation_status", "none", "ok")
    IN
    /\ IF res # "ok"
       THEN \* return None, or a ValueError raised before anything is written
            /\ UNCHANGED <<invitations, team_members, registrations>>
            /\ last' = Record([base EXCEPT !.msg = res,
                          !.exc = IF res = "none" THEN "none" ELSE "ValueError"])
       ELSE IF status # "accepted"
       THEN /\ invitations' = [invitations EXCEPT ![i].status = status]
            /\ UNCHANGED <<team_members, registrations>>
            /\ last' = Record(base)
       ELSE IF add = "ok"
       THEN \* add_team_member committed in its own session, then the status
            /\ team_members' = MembersAfterAdd(t, user, "member")
            /\ registrations' = RegistrationsAfterAdd(t, user)
            /\ invitations' = [invitations EXCEPT ![i].status = "accepted"]
            /\ last' = Record(base)
       ELSE IF ExceptionOf(add) = "ValueError"
       THEN \* except ValueError: status reset, commit, re-raise with the reason
            /\ invitations' = [invitations EXCEPT ![i].status = StatusAfterFailedAccept]
            /\ UNCHANGED <<team_members, registrations>>
            /\ last' = Record([base EXCEPT !.exc = "ValueError",
                          !.msg = "accept_failed", !.cause = add])
       ELSE \* any other exception leaves the session without a commit
            /\ UNCHANGED <<invitations, team_members, registrations>>
            /\ last' = Record([base EXCEPT !.exc = ExceptionOf(add), !.msg = add])
    /\ UNCHANGED <<hackathons, teams, nextHackathonId, nextTeamId,
                   nextInvitationId, calls, watch, auth>>

\* ------------------------------------------- calls that run interleaved
\* A call of add_team_member, or of update_invitation_status that accepts,
\* runs from one await to the next: each query reads what is committed
\* when it executes, and what the session writes is seen by the others when
\* it commits.  calls[p] is the call request p is in: the query it awaits
\* next (pc), its arguments and the values it has read so far.
IdleCall ==
    [pc |-> "idle", team_id |-> None, user_id |-> None, invitation_id |-> None,
     team |-> [id |-> None], members_count |-> 0, result |-> "-"]

\* How a call of add_team_member ends for its caller: a direct call
\* returns or raises, a call made by update_invitation_status hands its
\* outcome to the try/except around it; an AttributeError passes through
AddEnds(p, res) ==
    IF calls[p].invitation_id = None
    THEN /\ last' = Record(Call("add_team_member", ExceptionOf(res), res))
         /\ calls' = [calls EXCEPT ![p] = IdleCall]
    ELSE IF ExceptionOf(res) = "AttributeError"
    THEN /\ last' = Record(Call("update_invitation_status", ExceptionOf(res), res))
         /\ calls' = [calls EXCEPT ![p] = IdleCall]
    ELSE /\ last' = last
         /\ calls' = [calls EXCEPT ![p].pc = "resolve", ![p].result = res]

\* add_team_member(t, u) is called
call_add_team_member(p, t, u) ==
    /\ calls[p].pc = "idle"
    /\ calls' = [calls EXCEPT ![p] =
                    [IdleCall EXCEPT !.pc = "get_team", !.team_id = t, !.user_id = u]]
    /\ UNCHANGED <<db, last, watch, auth>>

\* update_invitation_status(i, accepted, user) is called: the invitation
\* is read and checked, the new status set in the session, and
\* add_team_member called
call_accept(p, i, user) ==
    LET res == ResolveOutcome(i, user) IN
    /\ calls[p].pc = "idle"
    /\ IF res = "ok"
       THEN /\ calls' = [calls EXCEPT ![p] =
                    [IdleCall EXCEPT !.pc = "get_team",
                                     !.team_id = invitations[i].team_id,
                                     !.user_id = user, !.invitation_id = i]]
            /\ last' = last
       ELSE /\ calls' = calls
            /\ last' = Record(Call("update_invitation_status",
                                    IF res = "none" THEN "none" ELSE "ValueError", res))
    /\ UNCHANGED <<db, watch, auth>>

add_get_team(p) ==
    LET team == get_team_by_id(calls[p].team_id) IN
    /\ calls[p].pc = "get_team"
    /\ IF team.id = None
       THEN AddEnds(p, "team_not_found")
       ELSE /\ calls' = [calls EXCEPT ![p].pc = "check_registration", ![p].team = team]
            /\ last' = last
    /\ UNCHANGED <<db, watch, auth>>

add_check_registration(p) ==
    /\ calls[p].pc = "check_registration"
    /\ IF RegistrationsOf(calls[p].team.hackathon_id, calls[p].user_id) = {}
       THEN AddEnds(p, "not_registered")
       ELSE /\ calls' = [calls EXCEPT ![p].pc = "check_member"]
            /\ last' = last
    /\ UNCHANGED <<db, watch, auth>>

add_check_member(p) ==
    /\ calls[p].pc = "check_member"
    /\ IF MembersOf(calls[p].team_id, calls[p].user_id) # {}
       THEN AddEnds(p, "already_member")
       ELSE /\ calls' = [calls EXCEPT ![p].pc = "count_members"]
            /\ last' = last
    /\ UNCHANGED <<db, watch, auth>>

add_count_members(p) ==
    /\ calls[p].pc = "count_members"
    /\ calls' = [calls EXCEPT ![p].pc = "finish",
                              ![p].members_count = MemberCount(calls[p].team_id)]
    /\ UNCHANGED <<db, last, watch, auth>>

\* The count is compared with the limit; then the call raises, or inserts
\* the row, links the registration and commits
add_finish(p) ==
    LET t == calls[p].team_id
        u == calls[p].user_id
        res == CapacityOutcome(calls[p].team, calls[p].members_count)
        mine(r) == r.hackathon_id = calls[p].team.hackathon_id /\ r.user_id = u
        link(r) == [r EXCEPT !.team_id = t]
    IN
    /\ calls[p].pc = "finish"
    /\ IF res = "ok" /\ t \in DOMAIN teams
       THEN /\ team_members' = MembersAfterAdd(t, u, "member")
            /\ registrations' = UpdateWhere(registrations, mine, link)
       ELSE UNCHANGED <<team_members, registrations>>
    /\ AddEnds(p, res)
    /\ UNCHANGED <<hackathons, teams, invitations,
                   nextHackathonId, nextTeamId, nextInvitationId, watch, auth>>

\* A commit that writes the status of the session whatever it is
StatusWrittenBack(stored, status) == status

\* What a commit stores in the status column of a row that was loaded
\* as pending: the UPDATE of the session carries the columns whose value
\* differs from the loaded one, so a status set back to pending is not
\* written and the stored status stays what it is by then
StatusCommitted(stored, status) ==
    IF status = "pending" THEN stored ELSE status

\* update_invitation_status after add_team_member returned or raised a
\* ValueError: the status is committed, accepted or back to pending
accept_finish(p) ==
    LET i == calls[p].invitation_id
        res == calls[p].result
    IN
    /\ calls[p].pc = "resolve"
    /\ invitations' =
          IF i \notin DOMAIN invitations THEN invitations
          ELSE [invitations EXCEPT ![i].status =
                   StatusCommitted(@, IF res = "ok" THEN "accepted"
                                      ELSE StatusAfterFailedAccept)]
    /\ last' = Record(IF res = "ok"
                      THEN Ok("update_invitation_status")
                      ELSE [ValueError("update_invitation_status", "accept_failed")
                               EXCEPT !.cause = res])
    /\ calls' = [calls EXCEPT ![p] = IdleCall]
    /\ UNCHANGED <<hackathons, registrations, teams, team_members,
                   nextHackathonId, nextTeamId, nextInvitationId, watch, auth>>

\* update_invitation_status(i, rejected, user) is called: the invitation
\* is read and checked and the new status set in the session
call_reject(p, i, user) ==
    LET res == ResolveOutcome(i, user) IN
    /\ calls[p].pc = "idle"
    /\ IF res = "ok"
       THEN /\ calls' = [calls EXCEPT ![p] =
                    [IdleCall EXCEPT !.pc = "commit_rejected",
                                     !.team_id = invitations[i].team_id,
                                     !.user_id = user, !.invitation_id = i]]
            /\ last' = last
       ELSE /\ calls' = calls
            /\ last' = Record(Call("update_invitation_status",
                                    IF res = "none" THEN "none" ELSE "ValueError", res))
    /\ UNCHANGED <<db, watch, auth>>

\* ... and commits it
reject_finish(p) ==
    LET i == calls[p].invitation_id IN
    /\ calls[p].pc = "commit_rejected"
    /\ invitations' =
          IF i \notin DOMAIN invitations THEN invitations
          ELSE [invitations EXCEPT ![i].status = StatusCommitted(@, "rejected")]
    /\ last' = Record(Ok("update_invitation_status"))
    /\ calls' = [calls EXCEPT ![p] = IdleCall]
    /\ UNCHANGED <<hackathons, registrations, teams, team_members,
                   nextHackathonId, nextTeamId, nextInvitationId, watch, auth>>

\* ------------------------------------------------------- specification
Patch(S, unset) == S \cup {unset}

\* The team workflow: every call of HackathonRepository's registration
\* methods and of the methods of TeamRepository that write registrations,
\* teams, members or invitations, one whole call at a time
Next ==
    \/ \E h \in HackathonIds, u \in Users : register_for_hackathon(h, u)
    \/ \E h \in HackathonIds, u \in Users : unregister_from_hackathon(h, u)
    \/ \E h \in HackathonIds, n \in TeamNames, u \in Users : create_team(h, n, u)
    \/ \E t \in TeamIds, u \in Users : delete_team(t, u)
    \/ \E t \in TeamIds, u \in Users : add_team_member(t, u)
    \/ \E t \in TeamIds, m \in Users, r \in Users : remove_team_member(t, m, r)
    \/ \E t \in TeamIds, a \in Users, b \in Users :
          /\ InviteOutcome(t, a, b) = "ok" => nextInvitationId <= MaxInvitations
          /\ create_invitation(t, a, b)
    \/ \E i \in InvitationIds, s \in InvitationStatus, u \in Users :
          update_invitation_status(i, s, u)

\* ... and update_team, which rewrites a row of teams
NextWithUpdate ==
    \/ Next
    \/ \E t \in TeamIds, n \in Patch(TeamNames, "unset"), u \in Users :
          update_team(t, n, u)

Spec == Init /\ [][Next]_vars

\* The same workflow, with `last` keeping the outcome of one operation
SpecAdd == InitOpen({"add_team_member"}) /\ [][Next]_vars
SpecResolve == InitOpen({"update_invitation_status"}) /\ [][Next]_vars
SpecCreate == InitOpen({"create_team"}) /\ [][NextWithUpdate]_vars
SpecRemove == InitOpen({"remove_team_member"}) /\ [][Next]_vars
SpecCaptain == InitOpen({"not_captain"}) /\ [][NextWithUpdate]_vars
SpecDelete == InitOpen({"delete_team"}) /\ [][Next]_vars
SpecInvite == InitOpen({"create_invitation"}) /\ [][Next]_vars
SpecFail == InitOpen({"name_taken"}) /\ [][NextWithUpdate]_vars
SpecOrder == InitOpen({"create_team"}) /\ [][Next]_vars
\* The workflow with members added through the handler of the router
NextEndpoint ==
    \/ Next
    \/ \E t \in TeamIds, u \in Users, c \in Users : router_add_team_member(t, u, c)

SpecEndpoint == InitOpen({"router_add_team_member"}) /\ [][NextEndpoint]_vars
\* Registrations for an open hackathon and for one that is in progress or
\* finished
InitClosed ==
    /\ \E m \in SizeInputs, s \in HackathonStatus \ {"registration"} :
          hackathons = <<[status |-> "registration", max_team_size |-> m],
                         [status |-> s, max_team_size |-> m]>>
    /\ registrations = EmptyBag
    /\ teams = << >>
    /\ team_members = EmptyBag
    /\ invitations = << >>
    /\ nextHackathonId = 3
    /\ nextTeamId = 1
    /\ nextInvitationId = 1
    /\ last = Quiet
    /\ calls = << >>
    /\ watch = {"register_for_hackathon"}
    /\ blacklisted_tokens = {}
    /\ now = 0

NextClosed ==
    \/ \E h \in HackathonIds, u \in Users : register_for_hackathon(h, u)
    \/ \E h \in HackathonIds, u \in Users : unregister_from_hackathon(h, u)
    \/ \E h \in HackathonIds, n \in TeamNames, u \in Users : create_team(h, n, u)
    \/ \E t \in TeamIds, u \in Users : delete_team(t, u)

SpecClosed == InitClosed /\ [][NextClosed]_vars
\* The calls that link registrations and teams, with no registration
\* withdrawn
NextTeams ==
    \/ \E h \in HackathonIds, u \in Users : register_for_hackathon(h, u)
    \/ \E h \in HackathonIds, n \in TeamNames, u \in Users : create_team(h, n, u)
    \/ \E t \in TeamIds, u \in Users : delete_team(t, u)
    \/ \E t \in TeamIds, u \in Users : add_team_member(t, u)
    \/ \E t \in TeamIds, m \in Users, r \in Users : remove_team_member(t, m, r)
    \/ \E t \in TeamIds, a \in Users, b \in Users :
          /\ InviteOutcome(t, a, b) = "ok" => nextInvitationId <= MaxInvitations
          /\ create_invitation(t, a, b)
    \/ \E i \in InvitationIds, s \in InvitationStatus, u \in Users :
          update_invitation_status(i, s, u)

SpecTeams == InitOpen({}) /\ [][NextTeams]_vars

SpecRegister == InitOpen({"register_for_hackathon"}) /\ [][Next]_vars
\* ... and of every call refused for want of a Registration or because
\* the hackathon is not open
SpecJoin ==
    InitOpen({"not_registered", "hackathon_not_registration"}) /\ [][Next]_vars

\* A store the workflow reaches: every user registered for hackathon 1,
\* user 1 the captain of team 1, user 2 invited to it
TeamFormed ==
    /\ \E m \in SizeInputs :
          hackathons = <<[status |-> "registration", max_team_size |-> m],
                         [status |-> "in_progress", max_team_size |-> m]>>
    /\ registrations =
          InsertRow(SetToBag({[hackathon_id |-> 1, user_id |-> u, team_id |-> None] :
                                 u \in Users \ {1}}),
                    [hackathon_id |-> 1, user_id |-> 1, team_id |-> 1])
    /\ teams = <<[name |-> "x", hackathon_id |-> 1, captain_id |-> 1]>>
    /\ team_members = SetToBag({[team_id |-> 1, user_id |-> 1, role |-> "captain"]})
    /\ invitations = <<[team_id |-> 1, inviter_id |-> 1, invitee_id |-> 2,
                         status |-> "pending"]>>
    /\ nextHackathonId = 3
    /\ nextTeamId = 2
    /\ nextInvitationId = 2

InitConc ==
    /\ TeamFormed
    /\ last = Quiet
    /\ calls = [p \in Procs |-> IdleCall]
    /\ watch = {"add_team_member", "update_invitation_status"}
    /\ blacklisted_tokens = {}
    /\ now = 0

\* Requests served at the same time: calls of add_team_member and
\* acceptances advance one await at a time, registrations come and go
NextConc ==
    \/ \E h \in HackathonIds, u \in Users : register_for_hackathon(h, u)
    \/ \E h \in HackathonIds, u \in Users : unregister_from_hackathon(h, u)
    \/ \E p \in Procs, t \in TeamIds, u \in Users : call_add_team_member(p, t, u)
    \/ \E p \in Procs, i \in InvitationIds, u \in Users : call_accept(p, i, u)
    \/ \E p \in Procs : add_get_team(p)
    \/ \E p \in Procs : add_check_registration(p)
    \/ \E p \in Procs : add_check_member(p)
    \/ \E p \in Procs : add_count_members(p)
    \/ \E p \in Procs : add_finish(p)
    \/ \E p \in Procs : accept_finish(p)

SpecConc == InitConc /\ [][NextConc]_vars

\* Answers to one invitation served at the same time: acceptances and
\* rejections advance one await at a time, registrations come and go
InitRace ==
    /\ TeamFormed
    /\ last = Quiet
    /\ calls = [p \in Procs |-> IdleCall]
    /\ watch = {"update_invitation_status"}
    /\ blacklisted_tokens = {}
    /\ now = 0

NextRace ==
    \/ \E h \in HackathonIds, u \in Users : register_for_hackathon(h, u)
    \/ \E h \in HackathonIds, u \in Users : unregister_from_hackathon(h, u)
    \/ \E p \in Procs, i \in InvitationIds, u \in Users : call_accept(p, i, u)
    \/ \E p \in Procs, i \in InvitationIds, u \in Users : call_reject(p, i, u)
    \/ \E p \in Procs : add_get_team(p)
    \/ \E p \in Procs : add_check_registration(p)
    \/ \E p \in Procs : add_check_member(p)
    \/ \E p \in Procs : add_count_members(p)
    \/ \E p \in Procs : add_finish(p)
    \/ \E p \in Procs : accept_finish(p)
    \/ \E p \in Procs : reject_finish(p)

SpecRace == InitRace /\ [][NextRace]_vars

\* Teams made and dissolved in the store of TeamFormed while an
\* administrator edits the hackathons
InitAdmin ==
    /\ TeamFormed
    /\ last = Quiet
    /\ calls = [p \in Procs |-> IdleCall]
    /\ watch = {"update_hackathon"}
    /\ blacklisted_tokens = {}
    /\ now = 0

NextAdmin ==
    \/ \E h \in HackathonIds, n \in TeamNames, u \in Users : create_team(h, n, u)
    \/ \E t \in TeamIds, u \in Users : delete_team(t, u)
    \/ \E t \in TeamIds, u \in Users : add_team_member(t, u)
    \/ \E t \in TeamIds, m \in Users, r \in Users : remove_team_member(t, m, r)
    \/ \E h \in HackathonIds, body \in HackathonUpdateBodies : update_hackathon(h, body)

SpecAdmin == InitAdmin /\ [][NextAdmin]_vars

\* Invitations sent and answered, one call after the other, in the store
\* of TeamFormed
InitReinvite ==
    /\ TeamFormed
    /\ last = Quiet
    /\ calls = << >>
    /\ watch = {"create_invitation"}
    /\ blacklisted_tokens = {}
    /\ now = 0

NextReinvite ==
    \/ \E h \in HackathonIds, u \in Users : register_for_hackathon(h, u)
    \/ \E h \in HackathonIds, u \in Users : unregister_from_hackathon(h, u)
    \/ \E t \in TeamIds, a \in Users, b \in Users : create_invitation(t, a, b)
    \/ \E i \in 1..MaxReinvitations, s \in InvitationStatus, u \in Users :
          update_invitation_status(i, s, u)

SpecReinvite == InitReinvite /\ [][NextReinvite]_vars

\* ------------------------------------------- access tokens and logout
\* An access token as jwt.decode sees it: the subject it names (None: no
\* "sub"), its "exp" in whole seconds, and whether its signature verifies.
\* Two tokens with the same claims are the same string
Tokens == [sub : {None, 1}, exp : 1..MaxTime, signed : BOOLEAN]

\* The methods class UserRepository of repositories/user.py defines; the
\* name UserRepository of router/auth.py and utils/security.py is that
\* class (repositories/auth.py imports it and defines AuthRepository)
UserRepositoryMethods ==
    {"get_user_by_telegram_username", "get_user_by_id", "create_user",
     "update_user", "delete_user", "get_all_users", "update_user_role",
     "add_user_skill", "remove_user_skill", "get_user_skills"}

\* jwt.decode(token, SECRET_KEY, algorithms): JWTError for a signature
\* that does not verify or an "exp" that has passed
Decodes(token) == token.signed /\ ~(token.exp < now)

\* DELETE FROM blacklisted_tokens WHERE expires_at < now
AfterCleanup == {r \in blacklisted_tokens : ~(r.expires_at < now)}

\* AuthRepository.add_to_blacklist: nothing for a token that does not
\* decode or is already there, else a row with the token's "exp"
AfterAddToBlacklist(rows, token) ==
    IF ~Decodes(token) THEN rows
    ELSE IF \E r \in rows : r.token = token THEN rows
    ELSE rows \cup {[token |-> token, expires_at |-> token.exp]}

add_to_blacklist(token) ==
    /\ blacklisted_tokens' = AfterAddToBlacklist(blacklisted_tokens, token)
    /\ last' = Record(Ok("add_to_blacklist"))
    /\ UNCHANGED <<db, calls, watch, now>>

\* How get_current_user ends, after its cleanup: 401 for a blacklisted
\* token, for one that does not decode and for one without "sub", then
\* the lookup UserRepository.get_user_by_email
GetCurrentUserOutcome(token) ==
    IF \E r \in AfterCleanup : r.token = token THEN "blacklisted"
    ELSE IF ~Decodes(token) THEN "jwt_error"
    ELSE IF token.sub = None THEN "no_sub"
    ELSE IF "get_user_by_email" \notin UserRepositoryMethods THEN "AttributeError"
    ELSE "ok"

\* The exception a request ends with and the status it is answered with
AuthException(res) ==
    IF res = "ok" THEN "none"
    ELSE IF res = "AttributeError" THEN "AttributeError"
    ELSE "HTTPException"
AuthStatus(res) ==
    IF res = "ok" THEN "200"
    ELSE IF res \in {"blacklisted", "jwt_error", "no_sub"} THEN "401"
    ELSE "500"

get_current_user(token) ==
    LET res == GetCurrentUserOutcome(token) IN
    /\ blacklisted_tokens' = AfterCleanup
    /\ last' = Record([Call("get_current_user", AuthException(res), AuthStatus(res))
                          EXCEPT !.cause = res])
    /\ UNCHANGED <<db, calls, watch, now>>

\* The handler logout of router/auth.py behind its dependency
\* get_current_user: the body calls UserRepository.add_to_blacklist and
\* UserRepository.revoke_refresh_token, and any exception of the body is
\* answered with 500
LogoutOutcome(token) ==
    IF GetCurrentUserOutcome(token) # "ok" THEN GetCurrentUserOutcome(token)
    ELSE IF {"add_to_blacklist", "revoke_refresh_token"} \subseteq UserRepositoryMethods
         THEN "ok"
    ELSE "handler_error"

logout(token) ==
    LET res == LogoutOutcome(token) IN
    /\ blacklisted_tokens' = IF res = "ok"
                             THEN AfterAddToBlacklist(AfterCleanup, token)
                             ELSE AfterCleanup
    /\ last' = Record([Call("logout",
                            IF res = "handler_error" THEN "HTTPException"
                            ELSE AuthException(res),
                            AuthStatus(res))
                          EXCEPT !.cause = res])
    /\ UNCHANGED <<db, calls, watch, now>>

\* A second passes
tick ==
    /\ now <= MaxTime
    /\ now' = now + 1
    /\ UNCHANGED <<db, last, calls, watch, blacklisted_tokens>>

NextAuth ==
    \/ tick
    \/ \E token \in Tokens : add_to_blacklist(token)
    \/ \E token \in Tokens : get_current_user(token)
    \/ \E token \in Tokens : logout(token)

SpecAuth == InitOpen({"logout", "get_current_user"}) /\ [][NextAuth]_vars

\* ------------------------------------------------------------ properties
MaxTeamSizeOf(t) == hackathons[teams[t].hackathon_id].max_team_size
IsRegistered(t, u) == RegistrationsOf(teams[t].hackathon_id, u) # {}

\* The number of TeamMember rows of user u in team t
MemberRowCount(t, u) ==
    LET m(r) == r.team_id = t /\ r.user_id = u IN CountRows(team_members, m)

RegistrationCount(h, u) ==
    LET m(r) == r.hackathon_id = h /\ r.user_id = u IN CountRows(registrations, m)

CaptainRows(t) ==
    LET m(r) == r.team_id = t /\ r.role = "captain" IN Rows(team_members, m)
CaptainRowCount(t) ==
    LET m(r) == r.team_id = t /\ r.role = "captain" IN CountRows(team_members, m)

\* From the current state, every step that is `call` ends as `ends` says
\* (call and ends are actions: they relate the state to the next one)
EveryRun(call, ends) == ~ENABLED (call /\ ~ends)

\* C1: after any sequence of whole membership calls, no team has more
\* TeamMember rows than the max_team_size of its hackathon
TeamSizeWithinLimit ==
    \A t \in DOMAIN teams : MemberCount(t) <= MaxTeamSizeOf(t)

\* C1: a team that is exactly at its hackathon's limit, right after
\* add_team_member was called for a registered user who is not in it
TeamAtLimitAfterAdd ==
    /\ last.op = "add_team_member"
    /\ last.msg \notin {"team_not_found", "not_registered", "already_member"}
    /\ \E t \in DOMAIN teams : MemberCount(t) = MaxTeamSizeOf(t)

\* C2: add_team_member for a registered user who is not yet a member
\* returns and raises the member count by one while the count is below
\* max_team_size, and raises the team-full ValueError, the count unchanged,
\* when the count equals max_team_size
AddRespectsCapacity ==
    \A t \in DOMAIN teams, u \in Users :
        ( /\ IsRegistered(t, u)
          /\ MembersOf(t, u) = {} )
        => EveryRun(add_team_member(t, u),
                    IF MemberCount(t) < MaxTeamSizeOf(t)
                    THEN /\ last'.exc = "none"
                         /\ MemberCount(t)' = MemberCount(t) + 1
                    ELSE /\ last' = ValueError("add_team_member", "team_full")
                         /\ MemberCount(t)' = MemberCount(t))

\* No step changes the status of an invitation that is accepted or rejected
ResolvedKeepsStatus ==
    \A i \in DOMAIN invitations \cap DOMAIN invitations' :
        invitations[i].status # "pending"
        => invitations'[i].status = invitations[i].status

\* C3 (as stated): a resolved invitation keeps its status, and every
\* update_invitation_status call on it, whoever makes it, fails with the
\* already-resolved error
ResolvedRejectsEveryCaller ==
    /\ EveryRun(Next, ResolvedKeepsStatus)
    /\ \A i \in DOMAIN invitations, s \in InvitationStatus, u \in Users :
          invitations[i].status # "pending"
          => EveryRun(update_invitation_status(i, s, u),
                      last'.msg = "already_resolved")

\* C3: a resolved invitation keeps its status, and every
\* update_invitation_status call on it raises a ValueError and writes
\* nothing: the already-resolved error for the invitee, the invitee-only
\* error for anybody else
ResolvedStaysResolved ==
    /\ EveryRun(Next, ResolvedKeepsStatus)
    /\ \A i \in DOMAIN invitations, s \in InvitationStatus, u \in Users :
          invitations[i].status # "pending"
          => EveryRun(update_invitation_status(i, s, u),
                      /\ last' = ValueError("update_invitation_status",
                                            IF u = invitations[i].invitee_id
                                            THEN "already_resolved"
                                            ELSE "not_invitee")
                      /\ UNCHANGED db)

\* C3: the invitee called update_invitation_status on an invitation that
\* was already rejected
ResolvedCalledAgain ==
    /\ last.op = "update_invitation_status"
    /\ last.msg = "already_resolved"
    /\ \E i \in DOMAIN invitations : invitations[i].status = "rejected"

\* A step that makes an invitation accepted adds the invitee's row
AcceptedOnlyWithRow ==
    \A i \in DOMAIN invitations \cap DOMAIN invitations' :
        ( /\ invitations[i].status # "accepted"
          /\ invitations'[i].status = "accepted" )
        => team_members' = MembersAfterAdd(invitations[i].team_id,
                                           invitations[i].invitee_id, "member")

\* C4: accepting a pending invitation either returns, with the invitation
\* accepted and one more TeamMember row for (team, invitee), or raises,
\* with the invitation pending and the member rows untouched; and no step
\* makes an invitation accepted without adding that row
AcceptAllOrNothing ==
    /\ EveryRun(Next, AcceptedOnlyWithRow)
    /\ \A i \in InvitationIds, u \in Users :
          ResolveOutcome(i, u) = "ok"
          => EveryRun(update_invitation_status(i, "accepted", u),
                      \/ /\ last'.exc = "none"
                         /\ invitations'[i].status = "accepted"
                         /\ team_members' =
                               MembersAfterAdd(invitations[i].team_id, u, "member")
                      \/ /\ last'.exc # "none"
                         /\ invitations'[i].status = "pending"
                         /\ team_members' = team_members)

\* C4: an acceptance failed on a ValueError of add_team_member and left the
\* invitation pending
AcceptFailedLeftPending ==
    /\ last.op = "update_invitation_status"
    /\ last.msg = "accept_failed"
    /\ last.cause = "not_registered"
    /\ \E i \in DOMAIN invitations : invitations[i].status = "pending"

\* C5: no user has TeamMember rows in two different teams of one hackathon
OneTeamPerHackathon ==
    \A u \in Users : \A t1 \in DOMAIN teams, t2 \in DOMAIN teams :
        ( /\ t1 # t2
          /\ teams[t1].hackathon_id = teams[t2].hackathon_id )
        => ~(MembersOf(t1, u) # {} /\ MembersOf(t2, u) # {})

\* C6: remove_team_member whose member is the team's captain raises a
\* ValueError (insufficient rights, or the captain cannot leave) and writes
\* nothing, whoever the remover is
CaptainRemovalRejected ==
    \A t \in DOMAIN teams, r \in Users :
        EveryRun(remove_team_member(t, teams[t].captain_id, r),
                 /\ last'.exc = "ValueError"
                 /\ last'.msg \in {"insufficient_rights", "captain_cannot_leave"}
                 /\ UNCHANGED db)

\* C6: the captain (or somebody else on the captain's behalf) was refused,
\* the captain's row still in place
CaptainRemovalRefused ==
    /\ last.op = "remove_team_member"
    /\ last.msg = "captain_cannot_leave"
    /\ \E t \in DOMAIN teams : MembersOf(t, teams[t].captain_id) # {}

\* No step changes the captain_id of a team
CaptainIdKept ==
    \A t \in DOMAIN teams \cap DOMAIN teams' :
        teams'[t].captain_id = teams[t].captain_id

\* C7: every team has exactly one TeamMember row with role captain, that
\* row is the row of teams.captain_id, and no step changes the captain_id
\* of a team
OneFixedCaptain ==
    /\ [](\A t \in DOMAIN teams :
            /\ CaptainRowCount(t) = 1
            /\ \A r \in CaptainRows(t) : r.user_id = teams[t].captain_id)
    /\ [][CaptainIdKept]_vars

\* C7: create_team has just created a second team, each with its captain
TwoTeamsCreated ==
    /\ last = Ok("create_team")
    /\ Cardinality(DOMAIN teams) = 2
    /\ \A t \in DOMAIN teams : CaptainRowCount(t) = 1

\* C8: there is at most one Registration row per (hackathon, user), and
\* register_for_hackathon by a user who is registered raises the
\* already-registered ValueError and leaves that one row
OneRegistrationPerUser ==
    /\ \A h \in HackathonIds, u \in Users : RegistrationCount(h, u) <= 1
    /\ \A h \in HackathonIds, u \in Users :
          RegistrationsOf(h, u) # {}
          => EveryRun(register_for_hackathon(h, u),
                      /\ last' = ValueError("register_for_hackathon",
                                            "already_registered")
                      /\ RegistrationCount(h, u)' = 1
                      /\ UNCHANGED db)

\* C8: a registered user called register_for_hackathon again
RegisteredTwice ==
    /\ last = ValueError("register_for_hackathon", "already_registered")
    /\ \E h \in HackathonIds, u \in Users : RegistrationCount(h, u) = 1

JoinsOnlyRegistered ==
    \/ team_members' = team_members
    \/ \A t \in DOMAIN teams', u \in Users :
          MemberRowCount(t, u)' > MemberRowCount(t, u)
          => RegistrationsOf(teams'[t].hackathon_id, u) # {}

\* add_team_member, and an acceptance by the invitee of a pending
\* invitation, called for a user without a Registration for the team's
\* hackathon fail with the not-registered error and write nothing
UnregisteredCannotBeAdded ==
    /\ \A t \in DOMAIN teams, u \in Users :
          ~IsRegistered(t, u)
          => EveryRun(add_team_member(t, u),
                      /\ last' = ValueError("add_team_member", "not_registered")
                      /\ UNCHANGED db)
    /\ \A i \in DOMAIN invitations :
          ( /\ ~IsRegistered(invitations[i].team_id, invitations[i].invitee_id)
            /\ invitations[i].status = "pending" )
          => EveryRun(update_invitation_status(i, "accepted",
                                               invitations[i].invitee_id),
                      /\ last'.exc = "ValueError"
                      /\ last'.cause = "not_registered"
                      /\ UNCHANGED db)

\* C10 (as stated): TeamMember rows are only added for registered users,
\* and create_team, add_team_member and an acceptance called for a user
\* without a Registration fail with the not-registered error and add nothing
UnregisteredAlwaysToldSo ==
    /\ EveryRun(Next, JoinsOnlyRegistered)
    /\ UnregisteredCannotBeAdded
    /\ \A h \in DOMAIN hackathons, n \in TeamNames, u \in Users :
          RegistrationsOf(h, u) = {}
          => EveryRun(create_team(h, n, u),
                      /\ last' = ValueError("create_team", "not_registered")
                      /\ UNCHANGED db)

\* C10: TeamMember rows are only added for registered users, and
\* create_team for a hackathon that is open for registration,
\* add_team_member and an acceptance called for a user without a
\* Registration fail with the not-registered error and add nothing
UnregisteredCannotJoin ==
    /\ EveryRun(Next, JoinsOnlyRegistered)
    /\ UnregisteredCannotBeAdded
    /\ \A h \in DOMAIN hackathons, n \in TeamNames, u \in Users :
          ( /\ RegistrationsOf(h, u) = {}
            /\ hackathons[h].status = "registration" )
          => EveryRun(create_team(h, n, u),
                      /\ last' = ValueError("create_team", "not_registered")
                      /\ UNCHANGED db)

\* C10: create_team was refused for want of a Registration, while a team
\* created by a registered user exists
UnregisteredCreatorRefused ==
    /\ last = ValueError("create_team", "not_registered")
    /\ teams # << >>

\* C11: a create_team that returns has inserted the Team row, the
\* creator's TeamMember row with role captain and has set the creator's
\* Registration.team_id to the new team, all three in the one step; a
\* create_team that raises has written nothing
CreateTeamAtomic ==
    \A h \in HackathonIds, n \in TeamNames, u \in Users :
        EveryRun(create_team(h, n, u),
                 IF last'.exc = "none"
                 THEN /\ DOMAIN teams' = DOMAIN teams \cup {nextTeamId}
                      /\ nextTeamId \notin DOMAIN teams
                      /\ teams'[nextTeamId] =
                            [name |-> n, hackathon_id |-> h, captain_id |-> u]
                      /\ team_members' = InsertRow(team_members,
                            [team_id |-> nextTeamId, user_id |-> u, role |-> "captain"])
                      /\ RegistrationsOf(h, u)' # {}
                      /\ \A r \in RegistrationsOf(h, u)' : r.team_id = nextTeamId
                 ELSE UNCHANGED db)

\* C11: create_team has just returned, and the creator's registration
\* references the team created last
CreatorLinked ==
    /\ last = Ok("create_team")
    /\ \E t \in DOMAIN teams :
          /\ t = nextTeamId - 1
          /\ MembersOf(t, teams[t].captain_id) # {}
          /\ \E r \in RegistrationsOf(teams[t].hackathon_id, teams[t].captain_id) :
                r.team_id = t

\* C12: no two teams of one hackathon have the same name, and create_team
\* with a name that a team of the hackathon already has raises the
\* name-taken ValueError
UniqueTeamNames ==
    /\ \A t1 \in DOMAIN teams, t2 \in DOMAIN teams :
          ( /\ t1 # t2
            /\ teams[t1].hackathon_id = teams[t2].hackathon_id )
          => teams[t1].name # teams[t2].name
    /\ \A h \in DOMAIN hackathons, n \in TeamNames, u \in Users :
          ( /\ TeamsNamed(h, n) # {}
            /\ RegistrationsOf(h, u) # {}
            /\ hackathons[h].status = "registration" )
          => EveryRun(create_team(h, n, u),
                      /\ last' = ValueError("create_team", "name_taken")
                      /\ UNCHANGED db)

\* C13: update_team and delete_team called by anybody but the team's
\* captain raise the captain-only ValueError and write nothing
OnlyCaptainChangesTeam ==
    \A t \in DOMAIN teams, u \in Users :
        u # teams[t].captain_id
        => /\ \A n \in Patch(TeamNames, "unset") :
                 EveryRun(update_team(t, n, u),
                          /\ last' = ValueError("update_team", "not_captain")
                          /\ UNCHANGED db)
           /\ EveryRun(delete_team(t, u),
                       /\ last' = ValueError("delete_team", "not_captain")
                       /\ UNCHANGED db)

\* C13: delete_team was refused to a user who is not the captain, the team
\* and an invitation to it still there
StrangerRefusedDelete ==
    /\ last = ValueError("delete_team", "not_captain")
    /\ \E i \in DOMAIN invitations : invitations[i].team_id \in DOMAIN teams

\* C14: a delete_team that succeeds leaves no TeamMember row of the team,
\* and every registration is still there, those that referenced the team
\* with team_id cleared and the others as they were
DeleteTeamKeepsRegistrations ==
    \A t \in DOMAIN teams, u \in Users :
        EveryRun(delete_team(t, u),
                 last'.exc = "none"
                 => /\ t \notin DOMAIN teams'
                    /\ \A m \in BagToSet(team_members') : m.team_id # t
                    /\ \A r \in BagToSet(registrations') : r.team_id # t
                    /\ \A r \in BagToSet(registrations) :
                          LET kept == IF r.team_id = t
                                      THEN [r EXCEPT !.team_id = None] ELSE r
                              same(x) == x.hackathon_id = r.hackathon_id
                                         /\ x.user_id = r.user_id
                          IN  /\ kept \in BagToSet(registrations')
                              /\ CountRows(registrations', same)
                                   = CountRows(registrations, same))

\* C14: the only team ever created was deleted, and its captain's
\* registration is there without a team
TeamDeletedCaptainRegistered ==
    /\ last = Ok("delete_team")
    /\ nextTeamId = 2
    /\ team_members = EmptyBag
    /\ \E r \in BagToSet(registrations) : r.team_id = None

InvitedByCaptain ==
    /\ \A i \in DOMAIN invitations :
          /\ invitations[i].team_id \in DOMAIN teams
          /\ invitations[i].inviter_id = teams[invitations[i].team_id].captain_id
          /\ invitations[i].invitee_id # invitations[i].inviter_id
    /\ \A t \in DOMAIN teams, a \in Users, b \in Users :
          EveryRun(create_invitation(t, a, b),
                   IF /\ a = teams[t].captain_id
                      /\ b # a
                      /\ IsRegistered(t, b)
                      /\ MembersOf(t, b) = {}
                   THEN last'.exc = "none"
                        => /\ DOMAIN invitations' = DOMAIN invitations \cup {nextInvitationId}
                           /\ nextInvitationId \notin DOMAIN invitations
                           /\ invitations'[nextInvitationId] =
                                [team_id |-> t, inviter_id |-> a,
                                 invitee_id |-> b, status |-> "pending"]
                   ELSE /\ last'.exc = "ValueError"
                        /\ UNCHANGED db)

\* C16: the captain's invitation is in the store and a later
\* create_invitation was refused because the inviter is not the captain
InvitationSentThenStrangerRefused ==
    /\ last = ValueError("create_invitation", "not_captain")
    /\ \E i \in DOMAIN invitations : invitations[i].status = "pending"

\* C17: no team has two pending invitations for the same invitee; while
\* one is pending, create_invitation for the pair raises a ValueError
\* (the already-invited one when the captain asks) and inserts nothing,
\* and once none is pending the captain's call for a registered
\* non-member succeeds with a new pending invitation
OnePendingPerPair ==
    /\ \A i \in DOMAIN invitations, j \in DOMAIN invitations :
          (/\ i # j
           /\ invitations[i].team_id = invitations[j].team_id
           /\ invitations[i].invitee_id = invitations[j].invitee_id
           /\ invitations[i].status = "pending")
          => invitations[j].status # "pending"
    /\ \A t \in DOMAIN teams, a \in Users, b \in Users :
          LET allowed == /\ a = teams[t].captain_id
                         /\ b # a
                         /\ IsRegistered(t, b)
                         /\ MembersOf(t, b) = {}
              waiting == {i \in DOMAIN invitations :
                              /\ invitations[i].team_id = t
                              /\ invitations[i].invitee_id = b
                              /\ invitations[i].status = "pending"}
          IN  EveryRun(create_invitation(t, a, b),
                       IF waiting # {}
                       THEN /\ last'.exc = "ValueError"
                            /\ allowed => last'.msg = "already_invited"
                            /\ UNCHANGED db
                       ELSE allowed
                            => /\ last' = Ok("create_invitation")
                               /\ nextInvitationId \in DOMAIN invitations'
                               /\ invitations'[nextInvitationId] =
                                    [team_id |-> t, inviter_id |-> a,
                                     invitee_id |-> b, status |-> "pending"])

\* C17: user 2 rejected the first invitation to team 1 and has been
\* invited again
InvitedAgainAfterRejection ==
    /\ last = Ok("create_invitation")
    /\ DOMAIN invitations = {1, 2}
    /\ invitations[1].status = "rejected"
    /\ invitations[2].status = "pending"
    /\ invitations[1].team_id = invitations[2].team_id
    /\ invitations[1].invitee_id = invitations[2].invitee_id

\* C18: update_invitation_status called by anybody but the invitee (the
\* inviting captain included) raises the invitee-only ValueError and
\* writes nothing; the invitee rejecting a pending invitation makes it
\* rejected
OnlyInviteeResolves ==
    \A i \in DOMAIN invitations, s \in InvitationStatus, u \in Users :
        IF u # invitations[i].invitee_id
        THEN EveryRun(update_invitation_status(i, s, u),
                      /\ last' = ValueError("update_invitation_status", "not_invitee")
                      /\ UNCHANGED db)
        ELSE (invitations[i].status = "pending" /\ s = "rejected")
             => EveryRun(update_invitation_status(i, s, u),
                         /\ last' = Ok("update_invitation_status")
                         /\ invitations' = [invitations EXCEPT ![i].status = "rejected"]
                         /\ UNCHANGED <<team_members, registrations, teams>>)

\* C18: a user who is not the invitee was refused, the invitation still
\* pending
StrangerRefusedResolve ==
    /\ last = ValueError("update_invitation_status", "not_invitee")
    /\ \E i \in DOMAIN invitations : invitations[i].status = "pending"

InvitationsNeverDeleted ==
    \A i \in 1..(nextInvitationId - 1) : i \in DOMAIN invitations

\* C21: create_team ends with the error of the first check that fails, in
\* the order hackathon exists, hackathon open for registration, creator
\* registered, name free (four different messages), and returns a team
\* only when all four pass; a call for a hackathon that is not open for
\* registration adds no team
CreateTeamChecksInOrder ==
    \A h \in HackathonIds, n \in TeamNames, u \in Users :
        LET taken == \E t \in DOMAIN teams :
                        teams[t].hackathon_id = h /\ teams[t].name = n
            first == IF h \notin DOMAIN hackathons THEN "hackathon_not_found"
                     ELSE IF hackathons[h].status # "registration"
                          THEN "hackathon_not_registration"
                     ELSE IF RegistrationCount(h, u) = 0 THEN "not_registered"
                     ELSE IF taken THEN "name_taken"
                     ELSE "ok"
        IN  EveryRun(create_team(h, n, u),
                     /\ last' = Call("create_team",
                                     IF first = "ok" THEN "none" ELSE "ValueError",
                                     first)
                     /\ first # "ok" => teams' = teams
                     /\ \A t \in DOMAIN teams' \ DOMAIN teams :
                           /\ teams'[t].hackathon_id \in DOMAIN hackathons
                           /\ hackathons[teams'[t].hackathon_id].status = "registration")

\* C21: create_team was refused to an unregistered user while every team
\* name was taken in the open hackathon: the registration check and the
\* name check both fail, and the registration error is the one raised
UnregisteredToldBeforeNameTaken ==
    /\ last = ValueError("create_team", "not_registered")
    /\ \A n \in TeamNames : TeamsNamed(1, n) # {}

LoggedOutTokenRejected ==
    /\ \A token \in Tokens :
          (Decodes(token) /\ token.sub # None)
          => EveryRun(logout(token),
                      \E r \in blacklisted_tokens' : r.token = token)
    /\ \A r \in blacklisted_tokens :
          ~(r.expires_at < now)
          => EveryRun(get_current_user(r.token),
                      /\ last'.msg = "401"
                      /\ r \in blacklisted_tokens')

\* C24: register_for_hackathon for a hackathon that does not exist or is
\* not in status registration raises a ValueError and adds nothing, and
\* every registration in the store is for a hackathon in status
\* registration
RegistersOnlyWhileOpen ==
    /\ \A r \in BagToSet(registrations) :
          /\ r.hackathon_id \in DOMAIN hackathons
          /\ hackathons[r.hackathon_id].status = "registration"
    /\ \A h \in HackathonIds, u \in Users :
          (h \notin DOMAIN hackathons \/ hackathons[h].status # "registration")
          => EveryRun(register_for_hackathon(h, u),
                      /\ last'.exc = "ValueError"
                      /\ UNCHANGED db)

\* C24: a registration was refused as closed, with a finished hackathon
\* in the store and a registration for the open one
ClosedHackathonRefused ==
    /\ last = ValueError("register_for_hackathon", "registration_closed")
    /\ hackathons[2].status = "finished"
    /\ registrations # EmptyBag

\* C25: when two interleaved calls of add_team_member for different users
\* and the same team have both read a member count that leaves exactly
\* one free slot, each of them can go on past the capacity check and
\* commit its TeamMember row
RaceLetsBothIn ==
    \A p \in Procs, q \in Procs :
        ( /\ p # q
          /\ calls[p].pc = "finish"
          /\ calls[q].pc = "finish"
          /\ calls[p].team_id = calls[q].team_id
          /\ calls[p].user_id # calls[q].user_id
          /\ calls[p].team_id \in DOMAIN teams
          /\ calls[p].members_count = MaxTeamSizeOf(calls[p].team_id) - 1
          /\ calls[q].members_count = MaxTeamSizeOf(calls[q].team_id) - 1 )
        => ENABLED ( /\ add_finish(p)
                     /\ MemberRowCount(calls[p].team_id, calls[p].user_id)' = 1 )

\* C26: an acceptance commits as one step: when the invitee's call of
\* update_invitation_status(accepted) on a pending invitation has passed
\* every check of add_team_member and counted a free slot, its commit
\* stores the TeamMember row, the team_id of the Registration and the
\* status accepted together, so that the row is never seen beside a
\* pending invitation
AcceptCommitsAsOne ==
    \A p \in Procs :
        LET i == calls[p].invitation_id
            t == calls[p].team_id
            u == calls[p].user_id
        IN
        ( /\ calls[p].pc = "finish"
          /\ i \in DOMAIN invitations
          /\ t \in DOMAIN teams
          /\ invitations[i].status = "pending"
          /\ IsRegistered(t, u)
          /\ MemberRowCount(t, u) = 0
          /\ calls[p].members_count < MaxTeamSizeOf(t) )
        => ENABLED ( /\ add_finish(p)
                     /\ MemberRowCount(t, u)' = 1
                     /\ invitations'[i].status = "accepted" )

\* C27: the team_id of every Registration is set exactly when its user
\* holds a TeamMember row in a team of the registration's hackathon, and
\* then names such a team
TeamIdMatchesMembership ==
    \A r \in BagToSet(registrations) :
        LET held == {t \in DOMAIN teams :
                        /\ teams[t].hackathon_id = r.hackathon_id
                        /\ MemberRowCount(t, r.user_id) > 0}
        IN  /\ r.team_id # None <=> held # {}
            /\ r.team_id # None => r.team_id \in held

\* C28: the user of every TeamMember row holds a Registration for the
\* hackathon of the row's team, whatever registrations were withdrawn
MembersAreRegistered ==
    \A m \in BagToSet(team_members) :
        m.team_id \in DOMAIN teams
        => RegistrationCount(teams[m.team_id].hackathon_id, m.user_id) > 0

\* C29: of two answers of the invitee to one pending invitation that run
\* interleaved, one of them an acceptance, at most one takes effect: once
\* the stored status has left pending, the call still under way neither
\* changes it nor adds a TeamMember row, and no invitation is rejected
\* while its invitee holds a row in the team
OneAnswerTakesEffect ==
    /\ \A p \in Procs :
          LET i == calls[p].invitation_id IN
          ( /\ i \in DOMAIN invitations
            /\ invitations[i].status # "pending"
            /\ \/ calls[p].pc # "commit_rejected"
               \/ invitations[i].status = "accepted" )
          => ~ENABLED ( /\ add_finish(p) \/ accept_finish(p) \/ reject_finish(p)
                        /\ \/ invitations'[i].status # invitations[i].status
                           \/ team_members' # team_members )
    /\ \A i \in DOMAIN invitations :
          invitations[i].status = "rejected"
          => MemberRowCount(invitations[i].team_id, invitations[i].invitee_id) = 0

\* C29: an acceptance has passed every check of add_team_member and is
\* about to compare the count, and the rejection that ran beside it has
\* already been committed
AcceptOvertakenByRejection ==
    \E p \in Procs :
        /\ calls[p].pc = "finish"
        /\ calls[p].invitation_id \in DOMAIN invitations
        /\ invitations[calls[p].invitation_id].status = "rejected"

\* C30: no call of update_hackathon leaves a team of the hackathon with
\* more TeamMember rows than the hackathon's max_team_size
UpdateKeepsTeamsWithinSize ==
    \A h \in HackathonIds, body \in HackathonUpdateBodies :
        EveryRun(update_hackathon(h, body),
                 \A t \in DOMAIN teams :
                     teams[t].hackathon_id = h
                     => MemberCount(t) <= hackathons'[h].max_team_size)

\* C30: update_hackathon changed the max_team_size of a hackathon to the
\* very number of members one of its teams has
LimitLoweredToTeamSize ==
    /\ last.op = "update_hackathon"
    /\ last.cause = "max_team_size"
    /\ \E t \in DOMAIN teams :
          /\ hackathons[teams[t].hackathon_id].max_team_size < MaxSizeInput
          /\ MemberCount(t) = MaxTeamSizeOf(t)

====
